---- MODULE Spec2Model ----
(***************************************************************************)
(* Model of the MinerSentinel data-collection service.                     *)
(*                                                                         *)
(* The specifications of this module:                                      *)
(*                                                                         *)
(*   SpecPoll  - one collector object (BitAxeCollector or AvalonCollector, *)
(*               chosen in the initial state) and the tables it works on:  *)
(*               collect_all_devices, collect_device_data, the retried     *)
(*               telemetry request, update_device_status and the two       *)
(*               detection rules; two devices registered.                  *)
(*   SpecOne   - the same with one device registered.                      *)
(*   Spec      - app.py: the settings row, the process-wide settings       *)
(*               cache, the APScheduler jobs, the scheduled and the        *)
(*               manual execution of poll_all_sources.                     *)
(*   FairSpec  - Spec with the jobs of the scheduler firing again and      *)
(*               again.                                                    *)
(*   SpecWire  - one poll of a device of each family on the wire: the      *)
(*               payload of the HTTP device and the row made from it, the  *)
(*               request to the socket device and the decoding of its      *)
(*               answer.                                                   *)
(*   FairWire  - SpecWire with every step of a poll taken in the end.      *)
(*   SpecOps   - TelegramNotifier.send_message and its callers,            *)
(*               restart_device of both families, and the start of the     *)
(*               service in __main__.                                      *)
(*   SpecRules - the test of check_hashrate_stagnation and                 *)
(*               _parse_power_from_stats, applied to inputs of any shape.  *)
(*   SpecPair  - collect_device_data of one device statement by statement, *)
(*               run by the scheduler job and by the request thread of     *)
(*               /trigger/poll at the same time.                           *)
(*                                                                         *)
(* Hash rates are integers in hundredths of GH/s; a recorded_at timestamp  *)
(* is the ordinal of the device poll that took it.                         *)
(***************************************************************************)
EXTENDS Integers, Sequences, FiniteSets, TLC

\* ------------------------------------------------------------------------
\* Bounds of the exploration
\* ------------------------------------------------------------------------
MaxPolls == 3
MaxFaults == 1
MaxToggles == 1
MaxChanges == 1
MaxReloads == 1
MaxRounds == 2

\* ------------------------------------------------------------------------
\* Program constants
\* ------------------------------------------------------------------------
Families == {"bitaxe", "avalon"}
DeviceIds == {"d1", "d2"}
DeviceOrder == [d \in DeviceIds |-> IF d = "d1" THEN 1 ELSE 2]

\* @retry(stop_max_attempt_number=3, ...)
MaxAttempts == 3

\* a retry policy that allows a fourth attempt
stop_max_attempt_four(n) == n >= 4

\* the stop condition of the retry decorator, on the number of attempts made
stop_max_attempt(n) == n >= MaxAttempts

\* one api/system/info request; version, summary, estats, pools
NumRequests(f) == IF f = "bitaxe" THEN 1 ELSE 4

\* abs(hr - recent_hashrates[0]) < 0.1 (bitaxe), < 0.01 (avalon)
Tolerance(f) == IF f = "bitaxe" THEN 10 ELSE 1

\* readings a device may report: hashrate and best difficulty
Readings ==
  { [hashrate |-> 100, best |-> 100],
    [hashrate |-> 105, best |-> 105],
    [hashrate |-> 120, best |-> 0] }

NoReading == [hashrate |-> 0, best |-> 0]

AlertKinds == {"offline", "online", "stagnation", "restart", "best"}
NoAlerts == [k \in AlertKinds |-> 0]

\* outcome of the store during one call: fine, connect() raises, a statement
\* or the commit raises
DbOutcomes == {"ok", "connect", "stmt"}

VARIABLES
  family,        \* which collector class this object is
  devices_tbl,   \* rows of bitaxe_devices / avalon_devices
  mining_stats,  \* committed rows of *_mining_stats, per device, in insertion order
  devices,       \* self.devices
  polls,         \* number of collect_device_data calls so far; the clock
  idx,           \* position of the for loop of collect_all_devices, 0 = not running
  pc,            \* position inside collect_device_data
  req,           \* which telemetry request is being made
  tries,         \* outcomes of the attempts of the current request
  cur,           \* the decoded reading of this poll
  cause,         \* what raised into the except block of collect_device_data
  sent,          \* alerts handed to the telegram_notifier during the current poll
  restarts,      \* restart_device calls during the current poll
  stag_read,     \* whether check_hashrate_stagnation read the history in this poll
  polled,        \* devices whose collect_device_data was entered in this cycle
  abort_cause,   \* cause of the exception that left collect_all_devices, if any
  log,           \* per device, the completed polls: what raised, and the status alerts
  faults,        \* number of store failures so far
  toggles        \* number of is_active changes made through the API layer

pollvars == << family, devices_tbl, mining_stats, devices, polls, idx, pc, req,
               tries, cur, cause, sent, restarts, stag_read, polled,
               abort_cause, log, faults, toggles >>

VARIABLES
  settings_row,        \* the row id = 1 of collector_settings
  collector_settings,  \* the process-wide settings cache of app.py
  telegram_notifier,            \* the TelegramNotifier the collectors were built with
  scheduler,           \* the three interval jobs; epoch counts their re-creations
  cycle_pc,            \* per thread, the position inside poll_all_sources
  snap,                \* per thread, the row as it was when its cycle began
  used,                \* per thread, what its cycle polled the pool and alerted with
  cycles_run,          \* per thread, cycles begun since the thread was entered
  check_pc,            \* position of the check_settings job
  old,                 \* old_polling, old_device_check of the check_settings job
  changes,             \* number of settings changes stored so far
  reloads,             \* number of POST /settings/reload so far
  load_failures        \* number of failed settings loads so far

schedvars == << settings_row, collector_settings, telegram_notifier, scheduler, cycle_pc,
                snap, used, cycles_run, check_pc, old, changes, reloads,
                load_failures >>

VARIABLES
  system_info,   \* the decoded answer of GET api/system/info
  info_row,      \* the row written to bitaxe_system_info by this poll
  http_pc,       \* position of the poll of the HTTP device
  sock_pc,       \* position of the poll of the socket device
  remote,        \* what the remote end does with the current connection
  received,      \* whether response holds any data
  chunks,        \* number of chunks in response, modulo 2
  sock_tries,    \* attempts of the current _socket_request so far
  summary_info,  \* what _socket_request(ip, 'summary') returned
  sample         \* the mining sample made from summary_info

wirevars == << system_info, info_row, http_pc, sock_pc, remote, received,
               chunks, sock_tries, summary_info, sample >>

VARIABLES
  enabled,        \* self.enabled of the TelegramNotifier
  send_pc,        \* position of the alert that is being sent
  caller,         \* the function of the collector that sends it
  parse_mode,     \* the parse_mode of the current call of send_message
  posts,          \* requests.post calls made for this alert
  send_log,       \* level of the last record send_message logged
  send_result,    \* what send_message returned
  committed,      \* whether the sample of the poll is committed
  restart_pc,     \* position of restart_device
  wire_call,      \* what the wire call of the restart came to
  restart_result, \* what restart_device returned
  boot_pc,        \* position of __main__
  retry_i,        \* i of the loop that waits for the database
  db_attempts,    \* psycopg2.connect calls made by that loop
  connected       \* whether one of them succeeded

opvars == << enabled, send_pc, caller, parse_mode, posts, send_log, send_result,
             committed, restart_pc, wire_call, restart_result, boot_pc, retry_i,
             db_attempts, connected >>

VARIABLES
  history,        \* the rows of *_mining_stats the stagnation query reads
  hr_family,      \* the family of the collector that runs the rule
  stagnant,       \* whether the test of check_hashrate_stagnation held
  rule_sent,      \* send_hashrate_alert calls of this run of the rule
  rule_restarts,  \* restart_device calls of this run of the rule
  stats_info,     \* what _socket_request(ip, 'estats') returned
  power_watts     \* what _parse_power_from_stats made of it

rulevars == << history, hr_family, stagnant, rule_sent, rule_restarts,
               stats_info, power_watts >>

VARIABLES
  poll_pc,         \* per thread, the position inside collect_device_data
  was_online,      \* per thread, is_online of its update_device_status call
  seen_status,  \* per thread, is_active as its SELECT returned it
  recorded_at,     \* per thread, recorded_at of its samples
  pending,         \* per thread, the inserts of its open transaction
  conn_open,       \* per thread, whether conn of collect_device_data is open
  failed_at,       \* per thread, the statement of its poll that raised
  rounds,          \* per thread, the polls it has begun
  utcnow,          \* the clock of the host
  device_row,      \* the row of the device in *_devices
  mining_tbl,      \* recorded_at of the rows of *_mining_stats, in storage order
  hardware_tbl,    \* recorded_at of the rows of *_hardware_logs, in storage order
  status_alerts,   \* offline and online alerts sent so far
  left_open        \* connections that are open although their poll has returned

pairvars == << poll_pc, was_online, seen_status, recorded_at, pending,
               conn_open, failed_at, rounds, utcnow, device_row, mining_tbl,
               hardware_tbl, status_alerts, left_open >>

vars == << pollvars, schedvars, wirevars, opvars, rulevars, pairvars >>

\* ------------------------------------------------------------------------
\* Helpers
\* ------------------------------------------------------------------------
Abs(x) == IF x < 0 THEN -x ELSE x

Last(s) == s[Len(s)]

Range(s) == { s[i] : i \in 1..Len(s) }

Bump(a, k) == [a EXCEPT ![k] = @ + 1]

\* ORDER BY recorded_at DESC
RECURSIVE NewestFirst(_)
NewestFirst(rows) ==
  IF rows = {} THEN << >>
  ELSE LET top == CHOOSE r \in rows : \A q \in rows : q.recorded_at <= r.recorded_at
       IN << top >> \o NewestFirst(rows \ {top})

\* LIMIT n OFFSET k
LimitOffset(s, n, k) == SubSeq(s, k + 1, IF Len(s) < k + n THEN Len(s) ELSE k + n)

\* ------------------------------------------------------------------------
\* update_device_status
\* ------------------------------------------------------------------------
update_device_status(tbl, d, is_online, error_message, db, now) ==
  IF db = "connect"
  THEN [raised |-> TRUE, tbl |-> tbl, alert |-> "none"]
  ELSE IF db = "stmt"
  THEN [raised |-> FALSE, tbl |-> tbl, alert |-> "none"]
  ELSE LET current_status == tbl[d].is_active
       IN [raised |-> FALSE,
           tbl |-> [tbl EXCEPT ![d].last_seen_at = IF is_online THEN now ELSE @,
                               ![d].error_message = error_message],
           alert |-> IF current_status /\ ~is_online THEN "offline"
                     ELSE IF ~current_status /\ is_online THEN "online"
                     ELSE "none"]

\* ------------------------------------------------------------------------
\* check_hashrate_stagnation: the decision on the rows the query returns
\* ------------------------------------------------------------------------
recent_hashrates(rows) ==
  LET recent == LimitOffset(NewestFirst(Range(rows)), 3, 0)
  IN [i \in 1..Len(recent) |-> recent[i].hashrate]

\* a stagnation test that is content with two samples
stagnation_detected_two(f, rows) ==
  LET hrs == recent_hashrates(rows)
  IN /\ Len(hrs) >= 2
     /\ \A i \in 1..Len(hrs) : Abs(hrs[i] - hrs[1]) < Tolerance(f)

stagnation_detected(f, rows) ==
  LET hrs == recent_hashrates(rows)
  IN /\ Len(hrs) >= 3
     /\ \A i \in 1..Len(hrs) : Abs(hrs[i] - hrs[1]) < Tolerance(f)

\* ------------------------------------------------------------------------
\* check_best_difficulty_improvement: previous best and the decision
\* ------------------------------------------------------------------------
previous_best(rows) ==
  LET positive == { r \in Range(rows) : r.best > 0 }
      hit == LimitOffset(NewestFirst(positive), 1, 1)
  IN IF Len(hit) = 0 THEN 0 ELSE hit[1].best

best_alert(f, current_best_diff, prev) ==
  IF current_best_diff > 0 /\ prev > 0
  THEN (current_best_diff - prev) * 100 >= 5 * prev
  ELSE f = "avalon" /\ current_best_diff > 0 /\ prev = 0

\* ------------------------------------------------------------------------
\* The collector: initial state
\* ------------------------------------------------------------------------
InitPoll(registered) ==
  /\ family \in Families
  /\ devices_tbl = [d \in registered |->
                      [is_active |-> TRUE, last_seen_at |-> 0, error_message |-> ""]]
  /\ mining_stats = [d \in DeviceIds |-> << >>]
  /\ devices = << >>
  /\ polls = 0
  /\ idx = 0
  /\ pc = "idle"
  /\ req = 1
  /\ tries = << >>
  /\ cur = NoReading
  /\ cause = "none"
  /\ sent = NoAlerts
  /\ restarts = 0
  /\ stag_read = FALSE
  /\ polled = {}
  /\ abort_cause = "none"
  /\ log = [d \in DeviceIds |-> << >>]
  /\ faults = 0
  /\ toggles = 0

\* a store failure is injected only while the budget lasts
Inject(n) ==
  /\ faults + n <= MaxFaults
  /\ faults' = faults + n

Failed(outcome) == IF outcome = "ok" \/ outcome = "none" THEN 0 ELSE 1

\* the device the for loop is at
Device == devices[idx]

\* entering collect_device_data for the i-th entry of the list
BeginDevice(i) ==
  /\ idx' = i
  /\ polls' = polls + 1
  /\ pc' = "fetch"
  /\ req' = 1
  /\ tries' = << >>
  /\ cur' = NoReading
  /\ cause' = "none"
  /\ sent' = NoAlerts
  /\ restarts' = 0
  /\ stag_read' = FALSE
  /\ polled' = (IF i = 1 THEN {} ELSE polled) \cup {devices[i]}

\* the locals of collect_device_data are gone once the loop is left
ClearLocals ==
  /\ req' = 1
  /\ tries' = << >>
  /\ cur' = NoReading
  /\ cause' = "none"
  /\ sent' = NoAlerts
  /\ restarts' = 0
  /\ stag_read' = FALSE

\* what one completed poll leaves in the log
Logged(d, c, alerts) ==
  [log EXCEPT ![d] = Append(@, [cause |-> c,
                                offline |-> alerts["offline"],
                                online |-> alerts["online"]])]

\* SELECT ... WHERE is_active = TRUE: the active rows, in table order
RECURSIVE TableOrder(_)
TableOrder(ds) ==
  IF ds = {} THEN << >>
  ELSE LET first == CHOOSE d \in ds : \A e \in ds : DeviceOrder[d] <= DeviceOrder[e]
       IN << first >> \o TableOrder(ds \ {first})

ActiveList == TableOrder({ d \in DOMAIN devices_tbl : devices_tbl[d].is_active })

\* ------------------------------------------------------------------------
\* The API layer changes is_active of a registered device.  The change
\* commutes with every step that does not read is_active, so it is taken
\* right before one that does: load_active_devices (between cycles) or
\* update_device_status.
\* ------------------------------------------------------------------------
set_is_active(d) ==
  /\ pc \in {"idle", "status", "except"}
  /\ UNCHANGED << schedvars, wirevars, opvars, rulevars, pairvars >>
  /\ d \in DOMAIN devices_tbl
  /\ toggles < MaxToggles
  /\ toggles' = toggles + 1
  /\ devices_tbl' = [devices_tbl EXCEPT ![d].is_active = ~@]
  /\ UNCHANGED << family, mining_stats, devices, polls, idx, pc, req, tries, cur,
                  cause, sent, restarts, stag_read, polled, abort_cause, log,
                  faults >>

\* ------------------------------------------------------------------------
\* load_active_devices / update_devices
\* ------------------------------------------------------------------------
load_active_devices ==
  /\ idx = 0
  /\ UNCHANGED << schedvars, wirevars, opvars, rulevars, pairvars >>
  /\ devices' = ActiveList
  /\ UNCHANGED << family, devices_tbl, mining_stats, polls, idx, pc, req, tries,
                  cur, cause, sent, restarts, stag_read, polled, abort_cause,
                  log, faults, toggles >>

\* ------------------------------------------------------------------------
\* collect_all_devices: entry
\* ------------------------------------------------------------------------
collect_all_devices ==
  /\ idx = 0
  /\ UNCHANGED << schedvars, wirevars, opvars, rulevars, pairvars >>
  /\ polls + Len(devices) <= MaxPolls
  /\ IF devices = << >>
     THEN UNCHANGED << polls, idx, pc, req, tries, cur, cause, sent, restarts,
                       stag_read, polled, abort_cause >>
     ELSE /\ abort_cause' = "none"
          /\ BeginDevice(1)
  /\ UNCHANGED << family, devices_tbl, mining_stats, devices, log, faults, toggles >>

\* ------------------------------------------------------------------------
\* _api_request / _socket_request under @retry: one attempt
\* ------------------------------------------------------------------------
request_attempt ==
  /\ pc = "fetch"
  /\ UNCHANGED << schedvars, wirevars, opvars, rulevars, pairvars >>
  /\ \E ok \in BOOLEAN :
       /\ tries' = (IF ok /\ req < NumRequests(family) THEN << >> ELSE Append(tries, ok))
       /\ IF ok
          THEN IF req < NumRequests(family)
               THEN /\ req' = req + 1
                    /\ UNCHANGED << pc, cur, cause >>
               ELSE /\ \E r \in Readings : cur' = r
                    /\ pc' = "status"
                    /\ UNCHANGED << req, cause >>
          ELSE IF ~stop_max_attempt(Len(tries) + 1)
               THEN UNCHANGED << pc, req, cur, cause >>
               ELSE /\ pc' = "except"
                    /\ cause' = "fetch"
                    /\ UNCHANGED << req, cur >>
  /\ UNCHANGED << family, devices_tbl, mining_stats, devices, polls, idx, sent,
                  restarts, stag_read, polled, abort_cause, log, faults, toggles >>

\* ------------------------------------------------------------------------
\* collect_device_data: update_device_status(device_id, device_ip, True)
\* ------------------------------------------------------------------------
mark_online ==
  /\ pc = "status"
  /\ UNCHANGED << schedvars, wirevars, opvars, rulevars, pairvars >>
  /\ \E db \in DbOutcomes :
       LET r == update_device_status(devices_tbl, Device, TRUE, "", db, polls)
       IN /\ Inject(Failed(db))
          /\ IF r.raised
             THEN /\ pc' = "except"
                  /\ cause' = "db"
                  /\ UNCHANGED << devices_tbl, sent >>
             ELSE /\ pc' = "persist"
                  /\ devices_tbl' = r.tbl
                  /\ sent' = (IF r.alert = "none" THEN sent ELSE Bump(sent, r.alert))
                  /\ UNCHANGED cause
  /\ UNCHANGED << family, mining_stats, devices, polls, idx, req, tries, cur,
                  restarts, stag_read, polled, abort_cause, log, toggles >>

\* ------------------------------------------------------------------------
\* collect_device_data: the transaction that stores the samples.  The Avalon
\* collector runs its best-difficulty check in the middle of it, on a second
\* connection, which sees committed rows only.
\* ------------------------------------------------------------------------
PersistFaults ==
  {"none", "connect", "insert_mining", "insert_hardware", "insert_system", "commit"}

persist ==
  /\ pc = "persist"
  /\ UNCHANGED << schedvars, wirevars, opvars, rulevars, pairvars >>
  /\ \E fault \in PersistFaults, bd \in DbOutcomes :
       LET d == Device
           early == fault \in {"connect", "insert_mining"}
           inline == family = "avalon" /\ ~early /\ cur.best > 0
           bd_raised == inline /\ bd = "connect"
           bd_alert == /\ inline
                       /\ bd = "ok"
                       /\ best_alert(family, cur.best, previous_best(mining_stats[d]))
           raised == fault /= "none" \/ bd_raised
       IN /\ (~inline => bd = "ok")
          /\ Inject(Failed(fault) + Failed(bd))
          /\ sent' = (IF bd_alert THEN Bump(sent, "best") ELSE sent)
          /\ IF raised
             THEN /\ pc' = "except"
                  /\ cause' = "db"
                  /\ UNCHANGED mining_stats
             ELSE /\ pc' = "stagnation"
                  /\ mining_stats' =
                       [mining_stats EXCEPT ![d] =
                          Append(@, [recorded_at |-> polls,
                                     hashrate |-> cur.hashrate,
                                     best |-> cur.best])]
                  /\ UNCHANGED cause
  /\ UNCHANGED << family, devices_tbl, devices, polls, idx, req, tries, cur,
                  restarts, stag_read, polled, abort_cause, log, toggles >>

\* ------------------------------------------------------------------------
\* check_hashrate_stagnation, with the restart_device call it makes
\* ------------------------------------------------------------------------
check_hashrate_stagnation ==
  /\ pc = "stagnation"
  /\ UNCHANGED << schedvars, wirevars, opvars, rulevars, pairvars >>
  /\ \E db \in DbOutcomes, restart_ok \in BOOLEAN :
       LET d == Device
           fires == db = "ok" /\ stagnation_detected(family, mining_stats[d])
           alerts == IF ~fires THEN sent
                     ELSE IF restart_ok THEN Bump(Bump(sent, "stagnation"), "restart")
                     ELSE Bump(sent, "stagnation")
       IN /\ (~fires => restart_ok)
          /\ Inject(Failed(db))
          /\ stag_read' = (db = "ok")
          /\ sent' = alerts
          /\ restarts' = (IF fires THEN restarts + 1 ELSE restarts)
          /\ IF db = "connect"
             THEN /\ pc' = "except"
                  /\ cause' = "db"
                  /\ UNCHANGED log
             ELSE IF family = "bitaxe"
             THEN /\ pc' = "bestdiff"
                  /\ UNCHANGED << cause, log >>
             ELSE /\ pc' = "done"
                  /\ log' = Logged(d, cause, alerts)
                  /\ UNCHANGED cause
  /\ UNCHANGED << family, devices_tbl, mining_stats, devices, polls, idx, req,
                  tries, cur, polled, abort_cause, toggles >>

\* ------------------------------------------------------------------------
\* check_best_difficulty_improvement as the Bitaxe collector calls it, after
\* the commit
\* ------------------------------------------------------------------------
check_best_difficulty_improvement ==
  /\ pc = "bestdiff"
  /\ UNCHANGED << schedvars, wirevars, opvars, rulevars, pairvars >>
  /\ \E db \in DbOutcomes :
       LET d == Device
           fires == /\ db = "ok"
                    /\ best_alert(family, cur.best, previous_best(mining_stats[d]))
           alerts == IF fires THEN Bump(sent, "best") ELSE sent
       IN /\ Inject(Failed(db))
          /\ sent' = alerts
          /\ IF db = "connect"
             THEN /\ pc' = "except"
                  /\ cause' = "db"
                  /\ UNCHANGED log
             ELSE /\ pc' = "done"
                  /\ log' = Logged(d, cause, alerts)
                  /\ UNCHANGED cause
  /\ UNCHANGED << family, devices_tbl, mining_stats, devices, polls, idx, req,
                  tries, cur, restarts, stag_read, polled, abort_cause, toggles >>

\* ------------------------------------------------------------------------
\* collect_device_data: the except block,
\* update_device_status(device_id, device_ip, False, error_msg).  When that call
\* raises, the exception leaves collect_device_data and the for loop of
\* collect_all_devices.
\* ------------------------------------------------------------------------
handle_failure ==
  /\ pc = "except"
  /\ UNCHANGED << schedvars, wirevars, opvars, rulevars, pairvars >>
  /\ \E db \in DbOutcomes :
       LET d == Device
           r == update_device_status(devices_tbl, d, FALSE, "err", db, polls)
           alerts == IF r.alert = "none" THEN sent ELSE Bump(sent, r.alert)
       IN /\ Inject(Failed(db))
          /\ devices_tbl' = r.tbl
          /\ log' = Logged(d, cause, alerts)
          /\ IF r.raised
             THEN /\ idx' = 0
                  /\ pc' = "idle"
                  /\ abort_cause' = cause
                  /\ ClearLocals
             ELSE /\ pc' = "done"
                  /\ sent' = alerts
                  /\ UNCHANGED << idx, abort_cause, req, tries, cur, cause,
                                  restarts, stag_read >>
  /\ UNCHANGED << family, mining_stats, devices, polls, polled, toggles >>

\* ------------------------------------------------------------------------
\* collect_all_devices: the for loop moves on, or ends
\* ------------------------------------------------------------------------
next_device ==
  /\ pc = "done"
  /\ UNCHANGED << schedvars, wirevars, opvars, rulevars, pairvars >>
  /\ IF idx < Len(devices)
     THEN BeginDevice(idx + 1)
     ELSE /\ idx' = 0
          /\ pc' = "idle"
          /\ ClearLocals
          /\ UNCHANGED << polls, polled >>
  /\ UNCHANGED << family, devices_tbl, mining_stats, devices,
                  abort_cause, log, faults, toggles >>

\* ========================================================================
\* app.py: settings, scheduler jobs, collection cycles
\* ========================================================================

\* the columns of collector_settings that decide scheduling, pool polling and
\* alert delivery, with the values the API layer may store in them
FieldValues ==
  [ polling_interval_minutes |-> {15, 30},
    device_check_interval_minutes |-> {5, 10},
    pool_type |-> {"ckpool", "publicpool"},
    ckpool_address |-> {"", "bc1a"},
    publicpool_address |-> {"", "bc1b"},
    telegram_bot_token |-> {"tokA", "tokB"} ]

\* the row at the time the service starts
InitialRow ==
  [ polling_interval_minutes |-> 15,
    device_check_interval_minutes |-> 5,
    pool_type |-> "ckpool",
    ckpool_address |-> "bc1a",
    publicpool_address |-> "",
    telegram_bot_token |-> "tokA" ]

\* TELEGRAM_BOT_TOKEN of the process environment
EnvToken == "tokA"

\* the thread of the poll_all_sources job and a Flask request thread
Threads == {"job", "http"}

NoUse == [pool |-> "none", address |-> "", token |-> "none"]

\* load_settings_from_database: the cache afterwards
load_settings_from_database(ok) ==
  IF ok THEN settings_row ELSE collector_settings

\* a failing load, within the budget of store failures
LoadOutcome(ok) ==
  IF ok THEN UNCHANGED load_failures
  ELSE /\ load_failures < MaxFaults
       /\ load_failures' = load_failures + 1

\* reschedule_jobs: every job removed and added again with its interval
reschedule_jobs(cs) ==
  [ poll_all_sources |-> cs.polling_interval_minutes,
    check_devices |-> cs.device_check_interval_minutes,
    check_settings |-> 2,
    epoch |-> scheduler.epoch + 1 ]

\* the pool request poll_all_sources makes with settings cs
pool_request_any_address(cs) ==
  IF cs.pool_type = "publicpool"
  THEN [pool |-> "publicpool", address |-> cs.publicpool_address]
  ELSE [pool |-> "ckpool", address |-> cs.ckpool_address]

pool_request(cs) ==
  IF cs.pool_type = "publicpool"
  THEN IF cs.publicpool_address /= ""
       THEN [pool |-> "publicpool", address |-> cs.publicpool_address]
       ELSE [pool |-> "skip", address |-> ""]
  ELSE IF cs.ckpool_address /= ""
       THEN [pool |-> "ckpool", address |-> cs.ckpool_address]
       ELSE [pool |-> "skip", address |-> ""]

InitSched ==
  /\ settings_row = InitialRow
  /\ collector_settings = InitialRow
  /\ telegram_notifier = [bot_token |-> EnvToken]
  /\ scheduler = [ poll_all_sources |-> InitialRow.polling_interval_minutes,
                   check_devices |-> InitialRow.device_check_interval_minutes,
                   check_settings |-> 2,
                   epoch |-> 0 ]
  /\ cycle_pc = [t \in Threads |-> "idle"]
  /\ snap = [t \in Threads |-> InitialRow]
  /\ used = [t \in Threads |-> NoUse]
  /\ cycles_run = [t \in Threads |-> 0]
  /\ check_pc = "idle"
  /\ old = << 0, 0 >>
  /\ changes = 0
  /\ reloads = 0
  /\ load_failures = 0

\* collector_settings_view, POST: the API layer stores a new value
collector_settings_view ==
  /\ changes < MaxChanges
  /\ changes' = changes + 1
  /\ \E f \in DOMAIN FieldValues : \E v \in FieldValues[f] :
       /\ v /= settings_row[f]
       /\ settings_row' = [settings_row EXCEPT ![f] = v]
  /\ UNCHANGED << collector_settings, telegram_notifier, scheduler, cycle_pc, snap, used,
                  cycles_run, check_pc, old, reloads, load_failures >>
  /\ UNCHANGED << pollvars, wirevars, opvars, rulevars, pairvars >>

\* the interval trigger of the poll_all_sources job fires
run_poll_job ==
  /\ cycle_pc["job"] = "idle"
  /\ cycle_pc' = [cycle_pc EXCEPT !["job"] = "called"]
  /\ cycles_run' = [cycles_run EXCEPT !["job"] = 0]
  /\ UNCHANGED << settings_row, collector_settings, telegram_notifier, scheduler, snap,
                  used, check_pc, old, changes, reloads, load_failures >>
  /\ UNCHANGED << pollvars, wirevars, opvars, rulevars, pairvars >>

\* POST /poll arrives
trigger_poll ==
  /\ cycle_pc["http"] = "idle"
  /\ cycle_pc' = [cycle_pc EXCEPT !["http"] = "called"]
  /\ cycles_run' = [cycles_run EXCEPT !["http"] = 0]
  /\ UNCHANGED << settings_row, collector_settings, telegram_notifier, scheduler, snap,
                  used, check_pc, old, changes, reloads, load_failures >>
  /\ UNCHANGED << pollvars, wirevars, opvars, rulevars, pairvars >>

\* poll_all_sources, first step: reload the settings
poll_all_sources(t) ==
  /\ cycle_pc[t] = "called"
  /\ \E ok \in BOOLEAN :
       /\ LoadOutcome(ok)
       /\ collector_settings' = load_settings_from_database(ok)
  /\ snap' = [snap EXCEPT ![t] = settings_row]
  /\ used' = [used EXCEPT ![t] = NoUse]
  /\ cycles_run' = [cycles_run EXCEPT ![t] = @ + 1]
  /\ cycle_pc' = [cycle_pc EXCEPT ![t] = "loaded"]
  /\ UNCHANGED << settings_row, telegram_notifier, scheduler, check_pc, old, changes, reloads >>
  /\ UNCHANGED << pollvars, wirevars, opvars, rulevars, pairvars >>

\* poll_all_sources, second step: both collectors poll their devices; an alert
\* raised on the way goes out through the collector's telegram_notifier
collect_families(t) ==
  /\ cycle_pc[t] = "loaded"
  /\ \E alert \in BOOLEAN :
       used' = [used EXCEPT ![t].token = IF alert THEN telegram_notifier.bot_token ELSE "none"]
  /\ cycle_pc' = [cycle_pc EXCEPT ![t] = "collected"]
  /\ UNCHANGED << settings_row, collector_settings, telegram_notifier, scheduler, snap,
                  cycles_run, check_pc, old, changes, reloads, load_failures >>
  /\ UNCHANGED << pollvars, wirevars, opvars, rulevars, pairvars >>

\* poll_all_sources, third step: the pool selected by the cached settings
poll_pool(t) ==
  /\ cycle_pc[t] = "collected"
  /\ used' = [used EXCEPT ![t].pool = pool_request(collector_settings).pool,
                          ![t].address = pool_request(collector_settings).address]
  /\ cycle_pc' = [cycle_pc EXCEPT ![t] = "polled"]
  /\ UNCHANGED << settings_row, collector_settings, telegram_notifier, scheduler, snap,
                  cycles_run, check_pc, old, changes, reloads, load_failures >>
  /\ UNCHANGED << pollvars, wirevars, opvars, rulevars, pairvars >>

\* a cycle end that goes on to reschedule the jobs
return_rescheduling(t) ==
  /\ cycle_pc[t] = "polled"
  /\ cycle_pc' = [cycle_pc EXCEPT ![t] = "idle"]
  /\ scheduler' = reschedule_jobs(collector_settings)
  /\ snap' = [snap EXCEPT ![t] = InitialRow]
  /\ used' = [used EXCEPT ![t] = NoUse]
  /\ cycles_run' = [cycles_run EXCEPT ![t] = 0]
  /\ UNCHANGED << settings_row, collector_settings, telegram_notifier,
                  check_pc, old, changes, reloads, load_failures >>
  /\ UNCHANGED << pollvars, wirevars, opvars, rulevars, pairvars >>

\* poll_all_sources returns: the job instance ends, or trigger_poll answers
return_from_cycle(t) ==
  /\ cycle_pc[t] = "polled"
  /\ cycle_pc' = [cycle_pc EXCEPT ![t] = "idle"]
  /\ snap' = [snap EXCEPT ![t] = InitialRow]
  /\ used' = [used EXCEPT ![t] = NoUse]
  /\ cycles_run' = [cycles_run EXCEPT ![t] = 0]
  /\ UNCHANGED << settings_row, collector_settings, telegram_notifier, scheduler,
                  check_pc, old, changes, reloads, load_failures >>
  /\ UNCHANGED << pollvars, wirevars, opvars, rulevars, pairvars >>

\* check_and_apply_settings_changes, up to the reload: the cached intervals
check_settings_old ==
  /\ check_pc = "idle"
  /\ old' = << collector_settings.polling_interval_minutes,
               collector_settings.device_check_interval_minutes >>
  /\ check_pc' = "reload"
  /\ UNCHANGED << settings_row, collector_settings, telegram_notifier, scheduler, cycle_pc,
                  snap, used, cycles_run, changes, reloads, load_failures >>
  /\ UNCHANGED << pollvars, wirevars, opvars, rulevars, pairvars >>

\* check_and_apply_settings_changes, the rest: reload, compare, reschedule
check_and_apply_settings_changes ==
  /\ check_pc = "reload"
  /\ \E ok \in BOOLEAN :
       LET loaded == load_settings_from_database(ok)
       IN /\ LoadOutcome(ok)
          /\ collector_settings' = loaded
          /\ scheduler' =
               IF \/ old[1] /= loaded.polling_interval_minutes
                  \/ old[2] /= loaded.device_check_interval_minutes
               THEN reschedule_jobs(loaded)
               ELSE scheduler
  /\ check_pc' = "idle"
  /\ old' = << 0, 0 >>
  /\ UNCHANGED << settings_row, telegram_notifier, cycle_pc, snap, used, cycles_run,
                  changes, reloads >>
  /\ UNCHANGED << pollvars, wirevars, opvars, rulevars, pairvars >>

\* POST /settings/reload
reload_settings ==
  /\ reloads < MaxReloads
  /\ reloads' = reloads + 1
  /\ \E ok \in BOOLEAN :
       LET loaded == load_settings_from_database(ok)
       IN /\ LoadOutcome(ok)
          /\ collector_settings' = loaded
          /\ scheduler' = reschedule_jobs(loaded)
  /\ UNCHANGED << settings_row, telegram_notifier, cycle_pc, snap, used, cycles_run,
                  check_pc, old, changes >>
  /\ UNCHANGED << pollvars, wirevars, opvars, rulevars, pairvars >>

NextSched ==
  \/ collector_settings_view
  \/ run_poll_job
  \/ trigger_poll
  \/ \E t \in Threads : poll_all_sources(t)
  \/ \E t \in Threads : collect_families(t)
  \/ \E t \in Threads : poll_pool(t)
  \/ \E t \in Threads : return_from_cycle(t)
  \/ check_settings_old
  \/ check_and_apply_settings_changes
  \/ reload_settings

NextPoll ==
  \/ \E d \in DeviceIds : set_is_active(d)
  \/ load_active_devices
  \/ collect_all_devices
  \/ request_attempt
  \/ mark_online
  \/ persist
  \/ check_hashrate_stagnation
  \/ check_best_difficulty_improvement
  \/ handle_failure
  \/ next_device

\* ========================================================================
\* Wire formats and side channels: what one call does with one answer
\* ========================================================================

\* a JSON member that is absent, and one that is present with value v
Absent == [has |-> FALSE, val |-> 0]
Some(v) == [has |-> TRUE, val |-> v]

\* dict.get(key) and dict.get(key, default)
dict_get(obj, key) == obj[key]
dict_get_default(obj, key, default) == IF obj[key].has THEN obj[key] ELSE Some(default)

\* the optional members of api/system/info and the columns they are written to
OptionalFields == {"overheat_mode", "rotation", "displayTimeout"}

\* overheat_mode = IntegerField(default=0), display_rotation =
\* IntegerField(default=0), display_timeout = IntegerField(default=-1)
ColumnDefault == [overheat_mode |-> 0, rotation |-> 0, displayTimeout |-> -1]

\* payloads of api/system/info, as far as the optional members go
SystemInfos ==
  [ overheat_mode : {Absent, Some(0), Some(1)},
    rotation : {Absent, Some(0), Some(90)},
    displayTimeout : {Absent, Some(-1), Some(10)} ]

NoRow == [f \in OptionalFields |-> Absent]

\* the parameters collect_device_data hands to INSERT INTO bitaxe_system_info
system_info_params(info) ==
  [ overheat_mode |-> dict_get(info, "overheat_mode"),
    rotation |-> dict_get(info, "rotation"),
    displayTimeout |-> dict_get(info, "displayTimeout") ]

\* the three columns are NOT NULL
not_null_violation(params) == \E f \in OptionalFields : ~params[f].has

InitHttp ==
  /\ system_info = NoRow
  /\ info_row = NoRow
  /\ http_pc = "idle"

\* GET api/system/info answers
api_system_info ==
  /\ http_pc = "idle"
  /\ \E info \in SystemInfos : system_info' = info
  /\ http_pc' = "fetched"
  /\ UNCHANGED info_row
  /\ UNCHANGED << sock_pc, remote, received, chunks, sock_tries, summary_info, sample >>
  /\ UNCHANGED << pollvars, schedvars, opvars, rulevars, pairvars >>

\* collect_device_data: INSERT INTO bitaxe_system_info
insert_system_info ==
  /\ http_pc = "fetched"
  /\ LET params == system_info_params(system_info)
     IN IF not_null_violation(params)
        THEN /\ http_pc' = "raised"
             /\ info_row' = NoRow
        ELSE /\ http_pc' = "stored"
             /\ info_row' = params
  /\ UNCHANGED system_info
  /\ UNCHANGED << sock_pc, remote, received, chunks, sock_tries, summary_info, sample >>
  /\ UNCHANGED << pollvars, schedvars, opvars, rulevars, pairvars >>

\* collect_device_data returns
end_http_poll ==
  /\ http_pc \in {"stored", "raised"}
  /\ http_pc' = "idle"
  /\ system_info' = NoRow
  /\ info_row' = NoRow
  /\ UNCHANGED << sock_pc, remote, received, chunks, sock_tries, summary_info, sample >>
  /\ UNCHANGED << pollvars, schedvars, opvars, rulevars, pairvars >>

\* ------------------------------------------------------------------------
\* The socket family: _socket_request and the decoding of its answer
\* ------------------------------------------------------------------------

\* what the remote end does with one connection: refuse it, accept it and
\* close without a byte, accept it and stay silent, send a part of the answer
\* and close, send the whole answer and close, send data without end
RemoteBehaviours == {"refused", "silent_close", "silent", "truncated", "complete", "endless"}

\* a member of the SUMMARY object: absent, a number, or text that is no number
NoMember == [kind |-> "absent", val |-> 0]
Number(v) == [kind |-> "number", val |-> v]
Malformed == [kind |-> "text", val |-> 0]

\* the SUMMARY objects a complete answer may carry
Summaries ==
  [ MHS_av : {NoMember, Number(100000), Malformed},
    Elapsed : {NoMember, Number(60), Malformed},
    Best_Share : {NoMember, Number(100), Malformed} ]

\* except json.JSONDecodeError: return {"raw_response": response_str}
RawResponse == [MHS_av |-> NoMember, Elapsed |-> NoMember, Best_Share |-> NoMember]

NoSample == [hashrate_ghs |-> 0, uptime_seconds |-> 0, best_share |-> 0]

\* the recv loop goes round once more: the remote has data to send
remote_sends(r, got) ==
  \/ r = "endless"
  \/ r \in {"truncated", "complete"} /\ ~got

\* _parse_hashrate_mhs(summary_info.get('MHS av', '0'))
parse_hashrate_mhs(m) == IF m.kind = "number" THEN m.val \div 1000 ELSE 0

\* int(summary_info.get('Elapsed', 0)), float(summary_info.get('Best Share', 0))
conversion_raises(m) == m.kind = "text"
converted(m) == IF m.kind = "number" THEN m.val ELSE 0

InitSocket ==
  /\ sock_pc = "idle"
  /\ remote = "refused"
  /\ received = FALSE
  /\ chunks = 0
  /\ sock_tries = 0
  /\ summary_info = RawResponse
  /\ sample = NoSample

\* _socket_request: one attempt connects
socket_connect ==
  /\ sock_pc \in {"idle", "retry"}
  /\ \E r \in RemoteBehaviours :
       /\ remote' = r
       /\ sock_tries' = sock_tries + 1
       /\ IF r /= "refused" THEN sock_pc' = "recv"
          ELSE IF stop_max_attempt(sock_tries + 1) THEN sock_pc' = "raised"
          ELSE sock_pc' = "retry"
  /\ UNCHANGED << received, chunks, summary_info, sample >>
  /\ UNCHANGED << system_info, info_row, http_pc >>
  /\ UNCHANGED << pollvars, schedvars, opvars, rulevars, pairvars >>

\* _socket_request: one round of the recv loop, which ends with the parsing
socket_recv ==
  /\ sock_pc = "recv"
  /\ IF remote_sends(remote, received)
     THEN /\ received' = TRUE
          /\ chunks' = (chunks + 1) % 2
          /\ UNCHANGED << sock_pc, summary_info >>
     ELSE /\ sock_pc' = "returned"
          /\ IF remote = "complete"
             THEN \E s \in Summaries : summary_info' = s
             ELSE summary_info' = RawResponse
          /\ UNCHANGED << received, chunks >>
  /\ UNCHANGED << remote, sock_tries, sample >>
  /\ UNCHANGED << system_info, info_row, http_pc >>
  /\ UNCHANGED << pollvars, schedvars, opvars, rulevars, pairvars >>

\* collect_device_data: the conversions of the SUMMARY members, then the sample
decode_summary ==
  /\ sock_pc = "returned"
  /\ IF conversion_raises(summary_info.Elapsed) \/ conversion_raises(summary_info.Best_Share)
     THEN /\ sock_pc' = "decode_failed"
          /\ UNCHANGED sample
     ELSE /\ sock_pc' = "stored"
          /\ sample' = [ hashrate_ghs |-> parse_hashrate_mhs(summary_info.MHS_av),
                         uptime_seconds |-> converted(summary_info.Elapsed),
                         best_share |-> converted(summary_info.Best_Share) ]
  /\ UNCHANGED << remote, received, chunks, sock_tries, summary_info >>
  /\ UNCHANGED << system_info, info_row, http_pc >>
  /\ UNCHANGED << pollvars, schedvars, opvars, rulevars, pairvars >>

\* collect_device_data returns
end_socket_poll ==
  /\ sock_pc \in {"stored", "decode_failed", "raised"}
  /\ sock_pc' = "idle"
  /\ remote' = "refused"
  /\ received' = FALSE
  /\ chunks' = 0
  /\ sock_tries' = 0
  /\ summary_info' = RawResponse
  /\ sample' = NoSample
  /\ UNCHANGED << system_info, info_row, http_pc >>
  /\ UNCHANGED << pollvars, schedvars, opvars, rulevars, pairvars >>

\* ------------------------------------------------------------------------
\* TelegramNotifier.send_message and the callers that send an alert
\* ------------------------------------------------------------------------

\* what one requests.post to the sendMessage endpoint comes to: status 2xx,
\* status 400 with "parse entities" in the body, another error status, no
\* answer within the timeout, no connection
PostOutcomes == {"ok", "bad_entities", "http_error", "timeout", "connection_error"}

\* the functions of a collector that send an alert
Callers ==
  [ fn : {"check_hashrate_stagnation", "check_best_difficulty_improvement", "restart_device"},
    family : Families ]

NoCaller == [fn |-> "none", family |-> "bitaxe"]

\* whether the sample of the poll is committed when the caller sends:
\* the socket family checks the best difficulty between the insert and
\* conn.commit(), every other check comes after the commit
committed_before(c) ==
  ~(c.fn = "check_best_difficulty_improvement" /\ c.family = "avalon")

\* response.raise_for_status() raises requests.exceptions.HTTPError
raises_http_error(o) == o \in {"bad_entities", "http_error"}

\* the retry as plain text of the except HTTPError branch
retry_plain_text(o, mode) == o = "bad_entities" /\ mode = "HTML"

except_exception_http_only(o) == raises_http_error(o)

\* the exceptions of the try block that one of the except clauses catches
except_exception(o) == o /= "ok"

InitSend ==
  /\ enabled = TRUE
  /\ send_pc = "idle"
  /\ caller = NoCaller
  /\ parse_mode = "HTML"
  /\ posts = 0
  /\ send_log = "none"
  /\ send_result = FALSE
  /\ committed = FALSE

\* the body of send_message up to the request: if not self.enabled: return False
enter_send_message(c) ==
  /\ caller' = c
  /\ parse_mode' = "HTML"
  /\ posts' = 0
  /\ send_result' = FALSE
  /\ committed' = committed_before(c)
  /\ IF enabled
     THEN send_pc' = "post" /\ send_log' = "none"
     ELSE send_pc' = "returned" /\ send_log' = "debug"

\* TelegramNotifier.__init__: the token and the chat id are there or not
notifier_init ==
  /\ send_pc = "idle"
  /\ restart_pc = "idle"
  /\ enabled' \in BOOLEAN
  /\ enabled' /= enabled
  /\ UNCHANGED << send_pc, caller, parse_mode, posts, send_log, send_result, committed >>
  /\ UNCHANGED << restart_pc, wire_call, restart_result, boot_pc, retry_i, db_attempts, connected >>
  /\ UNCHANGED << pollvars, schedvars, wirevars, rulevars, pairvars >>

\* a check of the collector calls a send_*_alert of the notifier
send_alert ==
  /\ send_pc = "idle"
  /\ restart_pc = "idle"
  /\ \E c \in { k \in Callers : k.fn /= "restart_device" } : enter_send_message(c)
  /\ UNCHANGED enabled
  /\ UNCHANGED << restart_pc, wire_call, restart_result, boot_pc, retry_i, db_attempts, connected >>
  /\ UNCHANGED << pollvars, schedvars, wirevars, rulevars, pairvars >>

\* send_message: requests.post, raise_for_status and the except clauses
requests_post ==
  /\ send_pc = "post"
  /\ \E o \in PostOutcomes :
       /\ posts' = posts + 1
       /\ IF o = "ok"
          THEN send_pc' = "returned" /\ send_result' = TRUE /\ send_log' = "info"
               /\ UNCHANGED parse_mode
          ELSE IF ~except_exception(o)
          THEN send_pc' = "raised" /\ UNCHANGED << send_result, send_log, parse_mode >>
          ELSE IF raises_http_error(o) /\ retry_plain_text(o, parse_mode)
          THEN send_pc' = "post" /\ parse_mode' = "" /\ send_log' = "warning"
               /\ UNCHANGED send_result
          ELSE send_pc' = "returned" /\ send_result' = FALSE /\ send_log' = "error"
               /\ UNCHANGED parse_mode
  /\ UNCHANGED << enabled, caller, committed >>
  /\ UNCHANGED << restart_pc, wire_call, restart_result, boot_pc, retry_i, db_attempts, connected >>
  /\ UNCHANGED << pollvars, schedvars, wirevars, rulevars, pairvars >>

\* the check goes on after the call: its own except clause takes an
\* exception of the notifier, and conn.commit() of collect_device_data follows
alert_returns ==
  /\ send_pc \in {"returned", "raised"}
  /\ caller.fn /= "restart_device"
  /\ send_pc' = "done"
  /\ committed' = TRUE
  /\ UNCHANGED << enabled, caller, parse_mode, posts, send_log, send_result >>
  /\ UNCHANGED << restart_pc, wire_call, restart_result, boot_pc, retry_i, db_attempts, connected >>
  /\ UNCHANGED << pollvars, schedvars, wirevars, rulevars, pairvars >>

\* collect_device_data returns
end_alert ==
  /\ send_pc = "done"
  /\ caller.fn /= "restart_device"
  /\ send_pc' = "idle"
  /\ caller' = NoCaller
  /\ parse_mode' = "HTML"
  /\ posts' = 0
  /\ send_log' = "none"
  /\ send_result' = FALSE
  /\ committed' = FALSE
  /\ UNCHANGED enabled
  /\ UNCHANGED << restart_pc, wire_call, restart_result, boot_pc, retry_i, db_attempts, connected >>
  /\ UNCHANGED << pollvars, schedvars, wirevars, rulevars, pairvars >>

\* ------------------------------------------------------------------------
\* restart_device of the two families
\* ------------------------------------------------------------------------

\* what the wire call of a restart comes to: no connection, no answer within
\* the timeout, an error status (HTTP family), an answer without a byte, an
\* answer that is JSON but no object, an object without STATUS 'S', the
\* answer of a device that restarts
WireOutcomes ==
  {"connection_failure", "timeout", "error_status", "empty", "not_an_object",
   "unexpected", "success"}

\* the statements of the try block raise: requests.post and raise_for_status
\* of the HTTP family, _socket_request and response.get of the socket family
restart_raises(fam, w) ==
  IF fam = "bitaxe"
  THEN w \in {"connection_failure", "timeout", "error_status"}
  ELSE w \in {"connection_failure", "timeout", "not_an_object"}

\* the restart counts as sent: any 2xx answer of the HTTP family,
\* response.get('STATUS') == 'S' of the socket family
restart_accepted(fam, w) ==
  /\ ~restart_raises(fam, w)
  /\ IF fam = "bitaxe" THEN TRUE ELSE w = "success"

restart_except_none(fam, w) == FALSE

\* except Exception as e: ... return False
restart_except(fam, w) == restart_raises(fam, w)

InitRestart ==
  /\ restart_pc = "idle"
  /\ wire_call = "success"
  /\ restart_result = FALSE

\* restart_device up to the notification or to its return
restart_device ==
  /\ restart_pc = "idle"
  /\ send_pc = "idle"
  /\ \E fam \in Families, w \in WireOutcomes :
       /\ wire_call' = w
       /\ IF restart_accepted(fam, w)
          THEN /\ restart_pc' = "notify"
               /\ restart_result' = FALSE
               /\ enter_send_message([fn |-> "restart_device", family |-> fam])
          ELSE /\ IF restart_raises(fam, w) /\ ~restart_except(fam, w)
                  THEN restart_pc' = "raised"
                  ELSE restart_pc' = "returned"
               /\ restart_result' = FALSE
               /\ caller' = [fn |-> "restart_device", family |-> fam]
               /\ UNCHANGED << send_pc, parse_mode, posts, send_log, send_result, committed >>
  /\ UNCHANGED enabled
  /\ UNCHANGED << boot_pc, retry_i, db_attempts, connected >>
  /\ UNCHANGED << pollvars, schedvars, wirevars, rulevars, pairvars >>

\* send_device_restart_notification is back: return True, or the except
\* clause of restart_device takes what the notifier raised
restart_notified ==
  /\ restart_pc = "notify"
  /\ send_pc \in {"returned", "raised"}
  /\ restart_pc' = "returned"
  /\ restart_result' = (send_pc = "returned")
  /\ send_pc' = "done"
  /\ UNCHANGED << enabled, caller, parse_mode, posts, send_log, send_result, committed, wire_call >>
  /\ UNCHANGED << boot_pc, retry_i, db_attempts, connected >>
  /\ UNCHANGED << pollvars, schedvars, wirevars, rulevars, pairvars >>

\* the caller of restart_device goes on
end_restart ==
  /\ restart_pc \in {"returned", "raised"}
  /\ restart_pc' = "idle"
  /\ wire_call' = "success"
  /\ restart_result' = FALSE
  /\ send_pc' = "idle"
  /\ caller' = NoCaller
  /\ parse_mode' = "HTML"
  /\ posts' = 0
  /\ send_log' = "none"
  /\ send_result' = FALSE
  /\ committed' = FALSE
  /\ UNCHANGED enabled
  /\ UNCHANGED << boot_pc, retry_i, db_attempts, connected >>
  /\ UNCHANGED << pollvars, schedvars, wirevars, rulevars, pairvars >>

\* ------------------------------------------------------------------------
\* app.py, __main__: the wait for the database and the start of the service
\* ------------------------------------------------------------------------
max_retries == 30

\* the steps of __main__ after the loop, in their order
StartupSteps ==
  << "load_settings_from_database", "load_active_devices", "poll_all_sources",
     "reschedule_jobs", "scheduler_start", "app_run" >>

more_retries_one_more(k) == k < max_retries

\* if i < max_retries - 1: sleep and go round again, else: raise
more_retries(k) == k < max_retries - 1

InitStartup ==
  /\ boot_pc = "connect"
  /\ retry_i = 0
  /\ db_attempts = 0
  /\ connected = FALSE

\* one round of for i in range(max_retries): psycopg2.connect(DATABASE_URL)
wait_for_database ==
  /\ boot_pc = "connect"
  /\ db_attempts' = db_attempts + 1
  /\ \E ok \in BOOLEAN :
       IF ok
       THEN /\ connected' = TRUE
            /\ boot_pc' = StartupSteps[1]
            /\ UNCHANGED retry_i
       ELSE /\ UNCHANGED connected
            /\ IF ~more_retries(retry_i)
               THEN boot_pc' = "aborted" /\ UNCHANGED retry_i
               ELSE IF retry_i + 1 < max_retries
               THEN boot_pc' = "connect" /\ retry_i' = retry_i + 1
               ELSE boot_pc' = StartupSteps[1] /\ UNCHANGED retry_i
  /\ UNCHANGED << enabled, send_pc, caller, parse_mode, posts, send_log, send_result, committed >>
  /\ UNCHANGED << restart_pc, wire_call, restart_result >>
  /\ UNCHANGED << pollvars, schedvars, wirevars, rulevars, pairvars >>

\* __main__ after the loop: one statement after the other
startup_step ==
  /\ \E k \in 1..(Len(StartupSteps) - 1) :
       /\ boot_pc = StartupSteps[k]
       /\ boot_pc' = StartupSteps[k + 1]
  /\ UNCHANGED << retry_i, db_attempts, connected >>
  /\ UNCHANGED << enabled, send_pc, caller, parse_mode, posts, send_log, send_result, committed >>
  /\ UNCHANGED << restart_pc, wire_call, restart_result >>
  /\ UNCHANGED << pollvars, schedvars, wirevars, rulevars, pairvars >>

InitOps == InitSend /\ InitRestart /\ InitStartup

NextOps ==
  \/ notifier_init
  \/ send_alert
  \/ requests_post
  \/ alert_returns
  \/ end_alert
  \/ restart_device
  \/ restart_notified
  \/ end_restart
  \/ wait_for_database
  \/ startup_step

\* ------------------------------------------------------------------------
\* The decision of check_hashrate_stagnation and _parse_power_from_stats on
\* inputs of any shape
\* ------------------------------------------------------------------------

\* hash rates of the stored samples of a device, oldest first
HashrateLists ==
  UNION { [1..n -> {95, 100, 105}] : n \in 2..3 }

\* the rows of *_mining_stats with these hash rates
RowsOf(hrs) ==
  [i \in 1..Len(hrs) |-> [recorded_at |-> i, hashrate |-> hrs[i], best |-> 0]]

\* PS[...] of the MM ID0 blob: the arrays a firmware may report, << >> when
\* the blob has no PS[...]
PsArrays ==
  { SubSeq(b, 1, n) : b \in { << 0, 0, 27541, 4, 0, 3756, 133, 140 >>,
                              << 0, 0, 30000, 4, 0, 3800, 150, 150 >> },
                      n \in 0..8 }

\* the members of the MM ID0 blob that _parse_power_from_stats looks at
StatsInfos ==
  [ PS : PsArrays,
    MPO : {Absent, Some(133)},
    ATA2 : {<< >>, << 133, 90, 3756, 432, 20 >>} ]

\* _parse_power_from_stats: ps_values[6] of an array of 7 or more values,
\* else MPO[...], else the first value of ATA2[...], else 0.0
parse_power_from_stats(stats_info_) ==
  IF Len(stats_info_.PS) >= 7 THEN stats_info_.PS[7]
  ELSE IF stats_info_.MPO.has THEN stats_info_.MPO.val
  ELSE IF Len(stats_info_.ATA2) >= 1 THEN stats_info_.ATA2[1]
  ELSE 0

InitRules ==
  /\ history = << >>
  /\ hr_family = "bitaxe"
  /\ stagnant = FALSE
  /\ rule_sent = 0
  /\ rule_restarts = 0
  /\ stats_info = [PS |-> << >>, MPO |-> Absent, ATA2 |-> << >>]
  /\ power_watts = 0

\* check_hashrate_stagnation on the history of a device: the test, then
\* send_hashrate_alert and restart_device
stagnation_rule ==
  /\ \E f \in Families, hrs \in HashrateLists :
       LET fires == stagnation_detected(f, RowsOf(hrs))
       IN /\ history' = RowsOf(hrs)
          /\ hr_family' = f
          /\ stagnant' = fires
          /\ rule_sent' = (IF fires THEN 1 ELSE 0)
          /\ rule_restarts' = (IF fires THEN 1 ELSE 0)
  /\ UNCHANGED << stats_info, power_watts >>
  /\ UNCHANGED << pollvars, schedvars, wirevars, opvars, pairvars >>

\* power_watts = self._parse_power_from_stats(stats_info)
parse_power ==
  /\ \E s \in StatsInfos :
       /\ stats_info' = s
       /\ power_watts' = parse_power_from_stats(s)
  /\ UNCHANGED << history, hr_family, stagnant, rule_sent, rule_restarts >>
  /\ UNCHANGED << pollvars, schedvars, wirevars, opvars, pairvars >>

NextRules ==
  \/ stagnation_rule
  \/ parse_power

\* ------------------------------------------------------------------------
\* collect_device_data of one device, statement by statement, as the job of
\* the scheduler and the thread of POST /trigger/poll run it side by side
\* ------------------------------------------------------------------------

\* the statements of the try block that work on the store, in their order
WriteSteps == << "connect", "insert_mining", "insert_hardware", "commit" >>

\* the inserts of an open transaction
Tables == {"mining", "hardware"}

rows_after_autocommit(pend, done) == pend

\* the rows of a transaction that reach the tables: all of them when
\* conn.commit() returned, none when the connection goes without a commit
rows_after(pend, done) == IF done THEN pend ELSE {}

\* INSERT ... (device_id, recorded_at, ...): the table with the new row
Stored(tbl, rows, name, at) == IF name \in rows THEN Append(tbl, at) ELSE tbl

InitPair ==
  /\ poll_pc = [t \in Threads |-> "idle"]
  /\ was_online = [t \in Threads |-> TRUE]
  /\ seen_status = [t \in Threads |-> TRUE]
  /\ recorded_at = [t \in Threads |-> 0]
  /\ pending = [t \in Threads |-> {}]
  /\ conn_open = [t \in Threads |-> FALSE]
  /\ failed_at = [t \in Threads |-> "none"]
  /\ rounds = [t \in Threads |-> 0]
  /\ utcnow = 1
  /\ device_row = [is_active |-> TRUE, error_message |-> ""]
  /\ mining_tbl = << >>
  /\ hardware_tbl = << >>
  /\ status_alerts = [offline |-> 0, online |-> 0]
  /\ left_open = 0

\* collect_device_data is entered and the fetch, with its retries, is over
fetch_device(t) ==
  /\ poll_pc[t] = "idle"
  /\ rounds[t] < MaxRounds
  /\ rounds' = [rounds EXCEPT ![t] = @ + 1]
  /\ \E ok \in BOOLEAN :
       /\ was_online' = [was_online EXCEPT ![t] = ok]
       /\ failed_at' = [failed_at EXCEPT ![t] = IF ok THEN "none" ELSE "fetch"]
  /\ poll_pc' = [poll_pc EXCEPT ![t] = "select"]
  /\ recorded_at' = [recorded_at EXCEPT ![t] = 0]
  /\ UNCHANGED << seen_status, pending, conn_open, utcnow, device_row,
                  mining_tbl, hardware_tbl, status_alerts, left_open >>
  /\ UNCHANGED << pollvars, schedvars, wirevars, opvars, rulevars >>

\* update_device_status: SELECT is_active, last_seen_at, device_name
status_select(t) ==
  /\ poll_pc[t] = "select"
  /\ seen_status' = [seen_status EXCEPT ![t] = device_row.is_active]
  /\ poll_pc' = [poll_pc EXCEPT ![t] = "update"]
  /\ UNCHANGED << was_online, recorded_at, pending, conn_open, failed_at, rounds,
                  utcnow, device_row, mining_tbl, hardware_tbl, status_alerts,
                  left_open >>
  /\ UNCHANGED << pollvars, schedvars, wirevars, opvars, rulevars >>

\* update_device_status: UPDATE ... SET last_seen_at, error_message, the
\* commit, and the alert of a changed status
status_update(t) ==
  /\ poll_pc[t] = "update"
  /\ device_row' = [device_row EXCEPT !.error_message = IF was_online[t] THEN "" ELSE "err"]
  /\ status_alerts' =
       IF seen_status[t] /\ ~was_online[t] THEN Bump(status_alerts, "offline")
       ELSE IF ~seen_status[t] /\ was_online[t] THEN Bump(status_alerts, "online")
       ELSE status_alerts
  /\ poll_pc' = [poll_pc EXCEPT ![t] = IF was_online[t] THEN WriteSteps[1] ELSE "return"]
  /\ UNCHANGED << was_online, seen_status, recorded_at, pending, conn_open,
                  failed_at, rounds, utcnow, mining_tbl, hardware_tbl, left_open >>
  /\ UNCHANGED << pollvars, schedvars, wirevars, opvars, rulevars >>

\* a statement of the try block raised: the except block of
\* collect_device_data calls update_device_status(device_id, device_ip, False, ...)
Raised(t, step) ==
  /\ failed_at' = [failed_at EXCEPT ![t] = step]
  /\ was_online' = [was_online EXCEPT ![t] = FALSE]
  /\ poll_pc' = [poll_pc EXCEPT ![t] = "select"]

\* conn = self.get_db_connection() ... recorded_at = datetime.utcnow()
open_connection(t) ==
  /\ poll_pc[t] = "connect"
  /\ \E ok \in BOOLEAN :
       IF ok
       THEN /\ conn_open' = [conn_open EXCEPT ![t] = TRUE]
            /\ recorded_at' = [recorded_at EXCEPT ![t] = utcnow]
            /\ utcnow' = utcnow + 1
            /\ poll_pc' = [poll_pc EXCEPT ![t] = "insert_mining"]
            /\ UNCHANGED << failed_at, was_online >>
       ELSE /\ Raised(t, "connect")
            /\ UNCHANGED << conn_open, recorded_at, utcnow >>
  /\ UNCHANGED << seen_status, pending, rounds, device_row, mining_tbl,
                  hardware_tbl, status_alerts, left_open >>
  /\ UNCHANGED << pollvars, schedvars, wirevars, opvars, rulevars >>

\* cursor.execute(INSERT INTO *_mining_stats ...), then
\* cursor.execute(INSERT INTO *_hardware_logs ...)
insert_row(t) ==
  /\ poll_pc[t] \in {"insert_mining", "insert_hardware"}
  /\ \E ok \in BOOLEAN :
       IF ok
       THEN /\ pending' = [pending EXCEPT ![t] =
                             @ \cup {IF poll_pc[t] = "insert_mining" THEN "mining" ELSE "hardware"}]
            /\ poll_pc' = [poll_pc EXCEPT ![t] =
                             IF @ = "insert_mining" THEN "insert_hardware" ELSE "commit"]
            /\ UNCHANGED << failed_at, was_online >>
       ELSE /\ Raised(t, poll_pc[t])
            /\ UNCHANGED pending
  /\ UNCHANGED << seen_status, recorded_at, conn_open, rounds, utcnow,
                  device_row, mining_tbl, hardware_tbl, status_alerts, left_open >>
  /\ UNCHANGED << pollvars, schedvars, wirevars, opvars, rulevars >>

\* conn.commit(); cursor.close(); conn.close()
commit_samples(t) ==
  /\ poll_pc[t] = "commit"
  /\ \E ok \in BOOLEAN :
       IF ok
       THEN /\ mining_tbl' = Stored(mining_tbl, rows_after(pending[t], TRUE), "mining", recorded_at[t])
            /\ hardware_tbl' = Stored(hardware_tbl, rows_after(pending[t], TRUE), "hardware", recorded_at[t])
            /\ pending' = [pending EXCEPT ![t] = {}]
            /\ conn_open' = [conn_open EXCEPT ![t] = FALSE]
            /\ poll_pc' = [poll_pc EXCEPT ![t] = "return"]
            /\ UNCHANGED << failed_at, was_online >>
       ELSE /\ Raised(t, "commit")
            /\ UNCHANGED << mining_tbl, hardware_tbl, pending, conn_open >>
  /\ UNCHANGED << seen_status, recorded_at, rounds, utcnow, device_row,
                  status_alerts, left_open >>
  /\ UNCHANGED << pollvars, schedvars, wirevars, opvars, rulevars >>

\* collect_device_data returns.  After a failure the connection was never
\* closed: its transaction ends without a commit, and the connection itself
\* is closed when the interpreter finalizes the object, at once or later
return_from_poll(t) ==
  /\ poll_pc[t] = "return"
  /\ poll_pc' = [poll_pc EXCEPT ![t] = "idle"]
  /\ mining_tbl' = Stored(mining_tbl, rows_after(pending[t], FALSE), "mining", recorded_at[t])
  /\ hardware_tbl' = Stored(hardware_tbl, rows_after(pending[t], FALSE), "hardware", recorded_at[t])
  /\ pending' = [pending EXCEPT ![t] = {}]
  /\ conn_open' = [conn_open EXCEPT ![t] = FALSE]
  /\ \E finalized \in BOOLEAN :
       /\ (~conn_open[t] => finalized)
       /\ left_open' = IF finalized THEN left_open ELSE left_open + 1
  /\ UNCHANGED << was_online, seen_status, recorded_at, failed_at, rounds,
                  utcnow, device_row, status_alerts >>
  /\ UNCHANGED << pollvars, schedvars, wirevars, opvars, rulevars >>

NextPair ==
  \/ \E t \in Threads : fetch_device(t)
  \/ \E t \in Threads : status_select(t)
  \/ \E t \in Threads : status_update(t)
  \/ \E t \in Threads : open_connection(t)
  \/ \E t \in Threads : insert_row(t)
  \/ \E t \in Threads : commit_samples(t)
  \/ \E t \in Threads : return_from_poll(t)

InitWire == InitHttp /\ InitSocket

NextWire ==
  \/ api_system_info
  \/ insert_system_info
  \/ end_http_poll
  \/ socket_connect
  \/ socket_recv
  \/ decode_summary
  \/ end_socket_poll

\* one call at a time against one device of each family
InitCalls == InitPoll({}) /\ family = "bitaxe" /\ InitSched /\ InitWire /\ InitOps /\ InitRules /\ InitPair
SpecWire == InitCalls /\ [][NextWire]_vars

\* SpecWire with every step of a poll taken as soon as it can be: the
\* interpreter runs on, recv returns within the timeout of the socket
FairWire ==
  /\ SpecWire
  /\ WF_vars(api_system_info)
  /\ WF_vars(insert_system_info)
  /\ WF_vars(end_http_poll)
  /\ WF_vars(socket_connect)
  /\ WF_vars(socket_recv)
  /\ WF_vars(decode_summary)
  /\ WF_vars(end_socket_poll)

\* a registry of two devices
InitTwo == InitPoll(DeviceIds) /\ InitSched /\ InitWire /\ InitOps /\ InitRules /\ InitPair
SpecPoll == InitTwo /\ [][NextPoll]_vars

\* a registry of one device
InitOne == InitPoll({"d1"}) /\ InitSched /\ InitWire /\ InitOps /\ InitRules /\ InitPair
SpecOne == InitOne /\ [][NextPoll]_vars

\* the service with no device registered: settings, jobs and cycles
Init == InitPoll({}) /\ family = "bitaxe" /\ InitSched /\ InitWire /\ InitOps /\ InitRules /\ InitPair

\* the notifier, restart_device and the start of the service
SpecOps == Init /\ [][NextOps]_vars

\* the stagnation test and the power parser on their inputs
SpecRules == Init /\ [][NextRules]_vars

\* two polls of one device side by side
SpecPair == Init /\ [][NextPair]_vars
Spec == Init /\ [][NextSched]_vars

\* the jobs of the scheduler keep firing
FairSpec ==
  /\ Spec
  /\ WF_vars(run_poll_job)
  /\ WF_vars(\E t \in Threads : poll_all_sources(t))
  /\ WF_vars(\E t \in Threads : collect_families(t))
  /\ WF_vars(\E t \in Threads : poll_pool(t))
  /\ WF_vars(\E t \in Threads : return_from_cycle(t))
  /\ WF_vars(check_settings_old)
  /\ WF_vars(check_and_apply_settings_changes)

\* ========================================================================
\* Claims about the collector
\* ========================================================================

\* a behaviour in which the store never failed and nobody changed is_active
Undisturbed == faults = 0 /\ toggles = 0

\* C1: a failed poll that follows a failed poll of the same device sends no
\* device-offline alert; the offline alert belongs to the Online->Offline edge
\* only.  (Stated for behaviours without store failures or registry changes.)
C1_OfflineAlertOnlyOnEdge ==
  Undisturbed =>
    \A d \in DeviceIds : \A i \in 2..Len(log[d]) :
      (log[d][i].cause = "fetch" /\ log[d][i - 1].cause = "fetch")
        => log[d][i].offline = 0

\* C2: three consecutive polls of a device with outcomes success, failure,
\* success send exactly one offline alert and exactly one online alert, the
\* online alert on the third poll; a success after a success sends no alert.
\* (Stated for behaviours without store failures or registry changes.)
C2_OneOfflineOneOnline ==
  Undisturbed =>
    \A d \in DeviceIds :
      /\ \A i \in 1..(Len(log[d]) - 2) :
           ( /\ log[d][i].cause = "none"
             /\ log[d][i + 1].cause = "fetch"
             /\ log[d][i + 2].cause = "none" )
             => /\ log[d][i].offline + log[d][i + 1].offline + log[d][i + 2].offline = 1
                /\ log[d][i].online + log[d][i + 1].online + log[d][i + 2].online = 1
                /\ log[d][i + 2].online = 1
      /\ \A i \in 2..Len(log[d]) :
           (log[d][i - 1].cause = "none" /\ log[d][i].cause = "none")
             => log[d][i].offline = 0 /\ log[d][i].online = 0

\* C4: a device whose fetch fails after the retries never makes the loop of
\* collect_all_devices end early: every device of the list is polled in that
\* cycle.  (Stated for behaviours without registry changes.)
C4_FetchFailureNeverAbortsCycle ==
  (abort_cause = "fetch" /\ toggles = 0) => Range(devices) \subseteq polled

\* C5: a telemetry request is attempted at most 3 times, no attempt follows a
\* successful one, and a fetch failure reaches collect_device_data only after 3
\* failed attempts in a row.
C5_AtMostThreeAttempts ==
  /\ Len(tries) <= 3
  /\ \A i \in 1..(Len(tries) - 1) : ~tries[i]
  /\ cause = "fetch" => tries = << FALSE, FALSE, FALSE >>
  /\ pc \in {"status", "persist", "stagnation", "bestdiff"} => Last(tries)

\* C5 witness: the third failed attempt of a request has just been surfaced
C5_Witness == pc = "except" /\ cause = "fetch" /\ Len(tries) = 3

\* C6: the stored status that the next transition check reads equals the
\* outcome of the device's most recent poll: offline after a failed fetch,
\* online after a successful poll.  (Stated for behaviours without store
\* failures or registry changes.)
C6_StoredStatusIsLastOutcome ==
  Undisturbed =>
    \A d \in DOMAIN devices_tbl :
      log[d] /= << >> => (devices_tbl[d].is_active <=> Last(log[d]).cause = "none")

\* the sample of the current poll is in the table
Inserted(d) ==
  /\ mining_stats[d] /= << >>
  /\ Last(mining_stats[d]).recorded_at = polls

\* the three most recent hash rates of d are mutually within the tolerance
WithinTolerance(d) ==
  LET rows == mining_stats[d]
      n == Len(rows)
  IN /\ n >= 3
     /\ \A i, j \in (n - 2)..n :
          Abs(rows[i].hashrate - rows[j].hashrate) < (IF family = "bitaxe" THEN 10 ELSE 1)

InCycle(t) == cycle_pc[t] \in {"loaded", "collected", "polled"}

\* C3: at no time are two executions of poll_all_sources in progress: the
\* cycle of a manual trigger and the cycle of the scheduled job never overlap.
C3_NoOverlappingCycles == ~(InCycle("job") /\ InCycle("http"))

\* C7: once the stored polling interval stops changing, the poll job ends up
\* scheduled with the stored interval, however cycles, manual triggers and the
\* settings check interleave.  (Stated for behaviours in which nobody asks for
\* a manual reload and no settings load fails.)
C7_EventuallyRescheduled ==
  <>[]( \/ reloads > 0
        \/ load_failures > 0
        \/ scheduler.poll_all_sources = settings_row.polling_interval_minutes )

\* C8: the steps of a manual trigger leave the jobs, their intervals and their
\* next run times as they were, and the trigger has run exactly one cycle when
\* it answers.
C8_ManualTriggerKeepsSchedule ==
  [][ cycle_pc'["http"] /= cycle_pc["http"] =>
        /\ scheduler' = scheduler
        /\ cycle_pc'["http"] = "idle" => cycles_run["http"] = 1
        /\ cycles_run'["http"] <= 1 ]_vars

\* C8 witness: a manual cycle that loaded a new interval is about to answer
C8_Witness ==
  /\ cycle_pc["http"] = "polled"
  /\ cycles_run["http"] = 1
  /\ collector_settings.polling_interval_minutes /= scheduler.poll_all_sources

\* C9: a cycle delivers its alerts with the credentials, and polls the pool
\* backend and address, that the settings row held when the cycle began.
\* (Stated for behaviours in which no settings load fails.)
C9_CycleUsesStoredSettings ==
  load_failures = 0 =>
    \A t \in Threads :
      /\ (cycle_pc[t] \in {"collected", "polled"} /\ used[t].token /= "none")
           => used[t].token = snap[t].telegram_bot_token
      /\ cycle_pc[t] = "polled"
           => /\ used[t].pool = pool_request(snap[t]).pool
              /\ used[t].address = pool_request(snap[t]).address

\* ========================================================================
\* Claims about the detection rules and the decoders
\* ========================================================================

\* the poll of the current device has ended without an exception and its
\* sample is stored
PollStored == pc = "done" /\ cause = "none" /\ Inserted(Device)

\* the best difficulty of the newest sample before the one just stored that
\* has one, 0 when there is none
PriorBest(d) ==
  LET rows == mining_stats[d]
      before == { rows[i] : i \in 1..(Len(rows) - 1) }
      hit == LimitOffset(NewestFirst({ r \in before : r.best > 0 }), 1, 0)
  IN IF Len(hit) = 0 THEN 0 ELSE hit[1].best

\* C11: after a sample with best difficulty current > 0 is stored for a device
\* whose previous best difficulty is previous > 0, a best-difficulty alert is
\* sent if and only if (current - previous) / previous >= 0.05.  (Stated for
\* behaviours without store failures or registry changes.)
C11_BestAlertIffFivePercent ==
  (Undisturbed /\ PollStored /\ cur.best > 0 /\ PriorBest(Device) > 0) =>
    (sent["best"] = 1 <=>
       (cur.best - PriorBest(Device)) * 100 >= 5 * PriorBest(Device))

\* C12: in either family, after a sample with best difficulty > 0 is stored for
\* a device with no previous best difficulty, the "first best" alert is sent.
\* (Stated for behaviours without store failures or registry changes.)
C12_FirstBestAlert ==
  (Undisturbed /\ PollStored /\ cur.best > 0 /\ PriorBest(Device) = 0) =>
    sent["best"] = 1

\* C13: when the payload of the HTTP family lacks overheat_mode, rotation or
\* displayTimeout, collecting the device does not raise and the value written
\* for the field is its default (0, 0, -1), never null.
C13_MissingFieldsGetDefaults ==
  http_pc \in {"stored", "raised"} =>
    /\ http_pc = "stored"
    /\ \A f \in OptionalFields :
         info_row[f] = dict_get_default(system_info, f, ColumnDefault[f])

\* C14: when the remote end closes the connection or lets the read time out
\* without having sent any data, the fetch does not count as successful and no
\* sample is made from it.
C14_EmptyResponseIsFailure ==
  sock_pc \in {"returned", "stored"} => received

\* C15: decoding an answer with missing, truncated or malformed members never
\* raises; each member that cannot be recovered resolves to 0, and the poll is
\* not turned into a failure.
C15_DecodeNeverRaises ==
  /\ sock_pc /= "decode_failed"
  /\ sock_pc = "stored" =>
       /\ summary_info.MHS_av.kind /= "number" => sample.hashrate_ghs = 0
       /\ summary_info.Elapsed.kind /= "number" => sample.uptime_seconds = 0
       /\ summary_info.Best_Share.kind /= "number" => sample.best_share = 0

\* C16: a failed alert delivery is logged and comes back as False: send_message
\* never raises into the collector, makes a bounded number of requests for one
\* alert (two), and the sample of the poll is committed all the same.
C16_FailedAlertIsSoft ==
  /\ send_pc /= "raised"
  /\ posts <= 2
  /\ (send_pc \in {"returned", "done"} /\ posts > 0 /\ ~send_result) => send_log = "error"
  /\ (send_pc = "done" /\ caller.fn /= "restart_device") => committed

\* an alert sent before the commit fails twice, and the sample is committed
C16_Witness ==
  /\ send_pc = "done"
  /\ caller = [fn |-> "check_best_difficulty_improvement", family |-> "avalon"]
  /\ posts = 2
  /\ ~send_result
  /\ send_log = "error"
  /\ committed

\* C17: a cycle polls at most one pool backend, the one its pool_type selects,
\* and only with a configured address; without an address no pool is polled
\* and the cycle goes on to its end.
C17_AtMostOnePool ==
  [][\A t \in Threads :
       (cycle_pc[t] = "collected" /\ cycle_pc'[t] /= "collected") =>
         LET cs == collector_settings
             selected == IF cs.pool_type = "publicpool"
                         THEN cs.publicpool_address ELSE cs.ckpool_address
         IN /\ cycle_pc'[t] = "polled"
            /\ used'[t].pool \in {cs.pool_type, "skip"}
            /\ used'[t].pool = "skip" <=> selected = ""
            /\ used'[t].address = selected]_vars

\* a cycle whose selected backend has no address has passed the pool step
C17_Witness ==
  \E t \in Threads :
    /\ cycle_pc[t] = "polled"
    /\ used[t].pool = "skip"
    /\ collector_settings.pool_type = "publicpool"
    /\ collector_settings.publicpool_address = ""
    /\ collector_settings.ckpool_address /= ""

\* C18: every poll of a device that has started comes to its end, whatever
\* the remote end does: no data, a part of the answer, data without end.
C18_PollEventuallyEnds ==
  (sock_pc = "recv") ~> (sock_pc /= "recv")

\* C19: restart_device of both families returns a boolean for every outcome
\* of the wire call and never raises: True when the device took the restart,
\* False for a failed connection, a timeout, an error status, an empty or an
\* unexpected answer.
C19_RestartReturnsBoolean ==
  /\ restart_pc /= "raised"
  /\ restart_pc = "returned" =>
       /\ restart_result \in BOOLEAN
       /\ restart_result <=> restart_accepted(caller.family, wire_call)

\* the wire call of a restart timed out and restart_device returned False
C19_Witness ==
  /\ restart_pc = "returned"
  /\ caller.family = "avalon"
  /\ wire_call = "timeout"
  /\ restart_result = FALSE

\* C20: the start of the service makes at most max_retries (30) connection
\* attempts; it goes on to the settings, the first cycle and the scheduler
\* only after an attempt succeeded, and it is aborted once the last attempt
\* has failed.
C20_BoundedStartup ==
  /\ db_attempts <= max_retries
  /\ boot_pc \notin {"connect", "aborted"} => connected
  /\ boot_pc = "aborted" => (~connected /\ db_attempts = max_retries)
  /\ (db_attempts = max_retries /\ ~connected) => boot_pc = "aborted"

\* the thirtieth attempt has failed and the start is aborted
C20_Witness ==
  /\ boot_pc = "aborted"
  /\ db_attempts = max_retries
  /\ retry_i = max_retries - 1

\* the previous best difficulty the check of the current poll worked with:
\* the query of the HTTP family runs after the commit, the query of the
\* socket family before it
UsedPrevious(d) ==
  LET rows == mining_stats[d]
  IN IF family = "avalon"
     THEN previous_best(SubSeq(rows, 1, Len(rows) - 1))
     ELSE previous_best(rows)

\* C23: the previous value of the best-difficulty rule is the best difficulty
\* of the sample stored immediately before the just-inserted one, never the
\* just-inserted row and never an older row.  (Stated for behaviours without
\* store failures or registry changes.)
C23_PreviousIsImmediatelyBefore ==
  (Undisturbed /\ PollStored /\ cur.best > 0 /\ Len(mining_stats[Device]) >= 2) =>
    UsedPrevious(Device) = mining_stats[Device][Len(mining_stats[Device]) - 1].best

\* C24: a detection rule that sends its alert has queried a history that holds
\* the sample of the current poll: the sample is committed before the step of
\* the rule.
C24_WriteThenDetect ==
  [][(idx > 0 /\ pc /= "done" /\
        (sent'["best"] > sent["best"] \/ sent'["stagnation"] > sent["stagnation"]))
       => Inserted(Device)]_vars

\* C25: when writing the samples of a device fails, no detection rule has
\* sent an alert and no restart was made for that device in that poll.
C25_NoDetectionAfterWriteFailure ==
  (pc = "except" /\ cause = "db" /\ ~Inserted(Device)) =>
    (sent["best"] = 0 /\ sent["stagnation"] = 0 /\ restarts = 0)

\* C29: a poll reports its device offline only when its fetch failed.
\* (Stated for behaviours without registry changes.)
C29_OfflineOnlyAfterFetchFailure ==
  toggles = 0 =>
    \A d \in DeviceIds : \A i \in 1..Len(log[d]) :
      log[d][i].offline > 0 => log[d][i].cause = "fetch"

\* the three most recent hash rates are pairwise within the tolerance of the
\* family
PairwiseWithin(f, rows) ==
  LET n == Len(rows)
  IN /\ n >= 3
     /\ \A i, j \in (n - 2)..n :
          Abs(rows[i].hashrate - rows[j].hashrate) < (IF f = "bitaxe" THEN 10 ELSE 1)

\* C22: the stagnation rule fires if and only if the 3 most recent hash rates
\* of the device are pairwise within the tolerance of the family, and when it
\* fires it sends the stagnation alert and calls the restart.
C22_StagnationIffPairwise ==
  /\ stagnant <=> PairwiseWithin(hr_family, history)
  /\ stagnant => (rule_sent = 1 /\ rule_restarts = 1)

\* C28: for a non-empty PS[...] array of any length the decoded power is the
\* last element of the array.
C28_PowerIsLastElement ==
  stats_info.PS /= << >> => power_watts = Last(stats_info.PS)

\* ========================================================================
\* Claims about two polls of one device
\* ========================================================================

\* C21: the read of the stored status and its update are atomic with respect
\* to the other polls of the device: of two polls with the same outcome, run
\* side by side or one after the other, at most one sends the transition
\* alert.
C21_OneAlertForSameOutcome ==
  (\A t \in Threads : poll_pc[t] = "idle" /\ rounds[t] = 1 /\ failed_at[t] = "fetch")
    => status_alerts.offline <= 1

\* C26: the timestamps of the mining samples of a device strictly increase in
\* storage order, also when a manual trigger overlaps a scheduled cycle.
C26_TimestampsIncrease ==
  \A i \in 1..(Len(mining_tbl) - 1) : mining_tbl[i] < mining_tbl[i + 1]

\* C27: no connection opened by the poll of a device is open once the poll
\* has returned, on the failure paths as on success.
C27_ConnectionsReleased ==
  left_open = 0

\* C30: the mining sample and the hardware sample of a poll are stored
\* together or not at all: at every moment the two tables hold samples with
\* the same timestamps, in the same order.
C30_SamplesAtomic ==
  mining_tbl = hardware_tbl

\* a poll that raised between the two inserts has returned, next to a poll
\* that stored its samples
C30_Witness ==
  /\ \E t \in Threads :
       /\ poll_pc[t] = "idle"
       /\ failed_at[t] = "insert_hardware"
       /\ rounds[t] = 1
  /\ mining_tbl /= << >>
  /\ mining_tbl = hardware_tbl

====
